---- MODULE Spec2Model ----
(***************************************************************************)
(* A model of openseadragon-scalebar (src/unnamed/part_000, the TypeScript *)
(* source of src/lib/openseadragon-scalebar.js).                           *)
(*                                                                         *)
(* Numbers are exact rationals [n |-> numerator, d |-> denominator] in      *)
(* lowest terms, the denominator positive: the arithmetic of the source    *)
(* (products, quotients, comparisons, Math.ceil, Math.round, Math.pow,     *)
(* Math.log) is modelled by its exact value, not by its IEEE-754 rounding. *)
(* The formatting functions take positive numbers; what they give on the   *)
(* others is NaN, in InvokeNumber.                                         *)
(***************************************************************************)
EXTENDS Integers, Sequences, FiniteSets, TLC

VARIABLES
  call,    \* the call under check: the function and its arguments
  pc,      \* "call" before it runs, "done" after
  inner,   \* the call a renderer ends in
  ret,     \* what the call returned
  sb,      \* the Scalebar's fields
  viewer,  \* the viewer: open or not, zoom, container, viewport, wrap flags
  divElt   \* the overlay element

vars == <<call, pc, inner, ret, sb, viewer, divElt>>

----------------------------------------------------------------------------
(* Bounds of the model.                                                    *)

\* Rates and lengths are m * 10^e with m in 1..MaxMant, e in -MaxExp..MaxExp.
MaxMant == 9
MaxExp == 5

\* The viewport is panned at most MaxPan steps from the origin on each axis and
\* zoomed to levels 1..MaxZoom.
MaxPan == 2
MaxZoom == 2

\* A Scalebar takes at most MaxCalls calls and viewer events after its
\* construction.
MaxCalls == 4

----------------------------------------------------------------------------
(* Exact arithmetic on positive rationals.                                 *)

RECURSIVE GCD(_, _)
GCD(a, b) == IF b = 0 THEN a ELSE GCD(b, a % b)

\* The number n/d, in lowest terms.
Rat(n, d) == [n |-> n \div GCD(n, d), d |-> d \div GCD(n, d)]

Num(i) == [n |-> i, d |-> 1]

\* a * b (cross-reduced, so that the result is in lowest terms).
RMulBy(a, b, g1, g2) ==
  [n |-> (a.n \div g1) * (b.n \div g2), d |-> (a.d \div g2) * (b.d \div g1)]

RMul(a, b) == RMulBy(a, b, GCD(a.n, b.d), GCD(b.n, a.d))

\* a / b
RDiv(a, b) == RMul(a, [n |-> b.d, d |-> b.n])

\* a < b: by the integer parts when they differ, else by the fractions.
RLtBy(a, b, g) ==
  IF a.n \div a.d # b.n \div b.d
    THEN a.n \div a.d < b.n \div b.d
    ELSE (a.n % a.d) * (b.d \div g) < (b.n % b.d) * (a.d \div g)

RLt(a, b) == RLtBy(a, b, GCD(a.d, b.d))

\* a >= b
RGe(a, b) == ~RLt(a, b)

\* a > b
RGt(a, b) == RLt(b, a)

\* Math.pow(10, e)
Pow10(e) == IF e >= 0 THEN [n |-> 10 ^ e, d |-> 1] ELSE [n |-> 1, d |-> 10 ^ (-e)]

\* Math.round(x): the integer nearest to x, halves rounded up.
Round(x) == Num((2 * x.n + x.d) \div (2 * x.d))

\* Math.ceil(-log10(x)): the least integer e with -log10(x) <= e, that is,
\* with x * 10^e >= 1.
RECURSIVE CeilUp(_, _)
CeilUp(x, e) == IF RGe(RMul(x, Pow10(e)), Num(1)) THEN e ELSE CeilUp(x, e + 1)

RECURSIVE CeilDown(_, _)
CeilDown(x, e) ==
  IF RGe(RMul(x, Pow10(e - 1)), Num(1)) THEN CeilDown(x, e - 1) ELSE e

ceilNegLog10(x) == IF RGe(x, Num(1)) THEN CeilDown(x, 0) ELSE CeilUp(x, 1)

----------------------------------------------------------------------------
(* The formatting functions.                                               *)

getSignificand(x) == RMul(x, Pow10(ceilNegLog10(x)))

\* if (result >= k) { result /= k; }
DivideIfAtLeast(result, k) ==
  IF RGe(result, Num(k)) THEN RDiv(result, Num(k)) ELSE result

\* normalize without its last step, `if (result >= 2) result /= 2`.
normalizeNoHalving(value, minSize) ==
  DivideIfAtLeast(
    DivideIfAtLeast(
      getSignificand(RDiv(getSignificand(value), getSignificand(minSize))),
      5),
    4)

\* normalize with its three steps in the order 2, 4, 5.
normalizeReordered(value, minSize) ==
  DivideIfAtLeast(
    DivideIfAtLeast(
      DivideIfAtLeast(
        getSignificand(RDiv(getSignificand(value), getSignificand(minSize))),
        2),
      4),
    5)

normalize(value, minSize) ==
  DivideIfAtLeast(
    DivideIfAtLeast(
      DivideIfAtLeast(
        getSignificand(RDiv(getSignificand(value), getSignificand(minSize))),
        5),
      4),
    2)

\* The rest of roundSignificand once power is known.
RoundAtPower(x, power) ==
  IF power < 0
    THEN RMul(Round(RMul(x, Pow10(power))), Pow10(-power))
    ELSE RDiv(Round(RMul(x, Pow10(power))), Pow10(power))

\* roundSignificand with one decimal place less: power = decimalPlaces - 1 - exponent.
roundSignificandOneLess(x, decimalPlaces) ==
  RoundAtPower(x, decimalPlaces - 1 - (-ceilNegLog10(x)))

\* exponent = -Math.ceil(-log10(x)); power = decimalPlaces - exponent
roundSignificand(x, decimalPlaces) ==
  RoundAtPower(x, decimalPlaces - (-ceilNegLog10(x)))

\* getWithUnit with <= for < and > for >=: the boundaries in the finer bucket.
getWithUnitInclusive(value, unitSuffix) ==
  IF RGe(Rat(1, 1000000), value)
    THEN <<RMul(value, Num(1000000000)), " n", unitSuffix>>
  ELSE IF RGe(Rat(1, 1000), value)
    THEN <<RMul(value, Num(1000000)), " μ", unitSuffix>>
  ELSE IF RGe(Num(1), value)
    THEN <<RMul(value, Num(1000)), " m", unitSuffix>>
  ELSE IF RGt(value, Num(1000))
    THEN <<RDiv(value, Num(1000)), " k", unitSuffix>>
  ELSE <<value, " ", unitSuffix>>

\* value + " x" + unitSuffix: the text is the sequence of the parts concatenated.
getWithUnit(value, unitSuffix) ==
  IF RLt(value, Rat(1, 1000000))
    THEN <<RMul(value, Num(1000000000)), " n", unitSuffix>>
  ELSE IF RLt(value, Rat(1, 1000))
    THEN <<RMul(value, Num(1000000)), " μ", unitSuffix>>
  ELSE IF RLt(value, Num(1))
    THEN <<RMul(value, Num(1000)), " m", unitSuffix>>
  ELSE IF RGe(value, Num(1000))
    THEN <<RDiv(value, Num(1000)), " k", unitSuffix>>
  ELSE <<value, " ", unitSuffix>>

\* The local (value / ppm) * minSize of both getScalebarSizeAndText functions:
\* the length of the bar in the unit, before it is rounded for the label.
scalebarLength(ppm, minSize) ==
  RMul(RDiv(normalize(ppm, minSize), ppm), minSize)

\* size = value * ppm: the rate for the minimum width.
scalebarSizeByRate(ppm, minSize) == RMul(normalize(ppm, minSize), ppm)

\* The local size = value * minSize of both functions.
scalebarSize(ppm, minSize) == RMul(normalize(ppm, minSize), minSize)

Undefined == "undefined"

\* PluralText with `factor >= 1` for `factor > 1`.
PluralTextFromOne(factor, spacer, unitSuffix, handlePlural) ==
  <<factor,
    IF spacer = Undefined THEN " " ELSE spacer,
    unitSuffix,
    IF handlePlural /\ RGe(factor, Num(1)) THEN "s" ELSE "">>

\* factor + spacer + unitSuffix + plural: the parts of the text, in order.
PluralText(factor, spacer, unitSuffix, handlePlural) ==
  <<factor,
    IF spacer = Undefined THEN " " ELSE spacer,
    unitSuffix,
    IF handlePlural /\ RGt(factor, Num(1)) THEN "s" ELSE "">>

getScalebarSizeAndText(ppm, minSize, unitSuffix, handlePlural, spacer) ==
  [size |-> scalebarSize(ppm, minSize),
   text |-> PluralText(roundSignificand(scalebarLength(ppm, minSize), 3),
                       spacer, unitSuffix, handlePlural)]

getScalebarSizeAndTextForMetric(ppm, minSize, unitSuffix) ==
  [size |-> scalebarSize(ppm, minSize),
   text |-> getWithUnit(roundSignificand(scalebarLength(ppm, minSize), 3),
                        unitSuffix)]

----------------------------------------------------------------------------
(* The renderers. Each ends in `return f(args)`: the operator gives that   *)
(* call, and Invoke runs it.                                               *)

PlainCall(ppm, minSize, unitSuffix, handlePlural, spacer) ==
  [fn |-> "getScalebarSizeAndText", ppm |-> ppm, minSize |-> minSize,
   unitSuffix |-> unitSuffix, handlePlural |-> handlePlural, spacer |-> spacer]

MetricCall(ppm, minSize, unitSuffix) ==
  [fn |-> "getScalebarSizeAndTextForMetric", ppm |-> ppm, minSize |-> minSize,
   unitSuffix |-> unitSuffix, handlePlural |-> FALSE, spacer |-> Undefined]

Invoke(c) ==
  IF c.fn = "getScalebarSizeAndText"
    THEN getScalebarSizeAndText(c.ppm, c.minSize, c.unitSuffix, c.handlePlural, c.spacer)
    ELSE getScalebarSizeAndTextForMetric(c.ppm, c.minSize, c.unitSuffix)

METRIC_LENGTH(ppm, minSize) == MetricCall(ppm, minSize, "m")

\* IMPERIAL_LENGTH with the foot test against the feet of a mile.
IMPERIAL_LENGTH_5280(ppm, minSize) ==
  LET maxSize == RMul(minSize, Num(2))
      ppi == RMul(ppm, Rat(254, 10000))
      ppt == RDiv(ppi, Num(1000))
      ppf == RMul(ppi, Num(12))
      ppmi == RMul(ppf, Num(5280))
  IN  IF RLt(maxSize, RMul(ppi, Num(12)))
        THEN IF RLt(maxSize, ppi)
               THEN PlainCall(ppt, minSize, "th", FALSE, Undefined)
               ELSE PlainCall(ppi, minSize, "in", FALSE, Undefined)
      ELSE IF RLt(maxSize, RMul(ppf, Num(5280)))
        THEN PlainCall(ppf, minSize, "ft", FALSE, Undefined)
      ELSE PlainCall(ppmi, minSize, "mi", FALSE, Undefined)

IMPERIAL_LENGTH(ppm, minSize) ==
  LET maxSize == RMul(minSize, Num(2))
      ppi == RMul(ppm, Rat(254, 10000))
      ppt == RDiv(ppi, Num(1000))
      ppf == RMul(ppi, Num(12))
      ppmi == RMul(ppf, Num(5280))
  IN  IF RLt(maxSize, RMul(ppi, Num(12)))
        THEN IF RLt(maxSize, ppi)
               THEN PlainCall(ppt, minSize, "th", FALSE, Undefined)
               ELSE PlainCall(ppi, minSize, "in", FALSE, Undefined)
      ELSE IF RLt(maxSize, RMul(ppf, Num(2000)))
        THEN PlainCall(ppf, minSize, "ft", FALSE, Undefined)
      ELSE PlainCall(ppmi, minSize, "mi", FALSE, Undefined)

\* ASTRONOMY with the tests on minSize, not on maxSize = 2 * minSize.
ASTRONOMY_MinSize(ppa, minSize) ==
  LET ppminutes == RMul(ppa, Num(60))
      ppd == RMul(ppminutes, Num(60))
  IN  IF RLt(minSize, RMul(ppa, Num(60)))
        THEN PlainCall(ppa, minSize, "\"", FALSE, "")
      ELSE IF RLt(minSize, RMul(ppminutes, Num(60)))
        THEN PlainCall(ppminutes, minSize, "'", FALSE, "")
      ELSE PlainCall(ppd, minSize, "&#176", FALSE, "")

ASTRONOMY(ppa, minSize) ==
  LET maxSize == RMul(minSize, Num(2))
      ppminutes == RMul(ppa, Num(60))
      ppd == RMul(ppminutes, Num(60))
  IN  IF RLt(maxSize, RMul(ppa, Num(60)))
        THEN PlainCall(ppa, minSize, "\"", FALSE, "")
      ELSE IF RLt(maxSize, RMul(ppminutes, Num(60)))
        THEN PlainCall(ppminutes, minSize, "'", FALSE, "")
      ELSE PlainCall(ppd, minSize, "&#176", FALSE, "")

\* STANDARD_TIME with the hour test against 60, as for minutes.
STANDARD_TIME_Hour60(pps, minSize) ==
  LET maxSize == RMul(minSize, Num(2))
      ppminutes == RMul(pps, Num(60))
      pph == RMul(ppminutes, Num(60))
      ppd == RMul(pph, Num(24))
      ppy == RMul(ppd, Rat(36525, 100))
  IN  IF RLt(maxSize, RMul(pps, Num(60)))
        THEN MetricCall(pps, minSize, "s")
      ELSE IF RLt(maxSize, RMul(ppminutes, Num(60)))
        THEN PlainCall(ppminutes, minSize, "minute", TRUE, Undefined)
      ELSE IF RLt(maxSize, RMul(pph, Num(60)))
        THEN PlainCall(pph, minSize, "hour", TRUE, Undefined)
      ELSE IF RLt(maxSize, RMul(ppd, Rat(36525, 100)))
        THEN PlainCall(ppd, minSize, "day", TRUE, Undefined)
      ELSE PlainCall(ppy, minSize, "year", TRUE, Undefined)

STANDARD_TIME(pps, minSize) ==
  LET maxSize == RMul(minSize, Num(2))
      ppminutes == RMul(pps, Num(60))
      pph == RMul(ppminutes, Num(60))
      ppd == RMul(pph, Num(24))
      ppy == RMul(ppd, Rat(36525, 100))
  IN  IF RLt(maxSize, RMul(pps, Num(60)))
        THEN MetricCall(pps, minSize, "s")
      ELSE IF RLt(maxSize, RMul(ppminutes, Num(60)))
        THEN PlainCall(ppminutes, minSize, "minute", TRUE, Undefined)
      ELSE IF RLt(maxSize, RMul(pph, Num(24)))
        THEN PlainCall(pph, minSize, "hour", TRUE, Undefined)
      ELSE IF RLt(maxSize, RMul(ppd, Rat(36525, 100)))
        THEN PlainCall(ppd, minSize, "day", TRUE, Undefined)
      ELSE PlainCall(ppy, minSize, "year", TRUE, Undefined)

----------------------------------------------------------------------------
(* The inputs of the formatting functions.                                 *)

\* m * 10^e
Sci(m, e) == RMul(Num(m), Pow10(e))

\* Pixels per unit handed to a renderer.
Rates == {Sci(m, e) : m \in 1..MaxMant, e \in (-MaxExp)..MaxExp}

\* Pixels per meter handed to IMPERIAL_LENGTH: two decades up, the unit being
\* the mile for every rate below 0.1 px per meter.
ImperialRates == {Sci(m, e) : m \in 1..MaxMant, e \in (-MaxExp + 2)..MaxExp}

\* Minimum widths in pixels (divElt.offsetWidth for a width of "100px", ...).
MinSizes == {Num(100), Num(150), Num(200), Num(64)}

\* Values handed to getWithUnit: down to nano, up to kilo.
UnitValues == {Sci(m, e) : m \in 1..MaxMant, e \in (-MaxExp - 3)..(MaxExp - 1)}

Renderers == {"METRIC_LENGTH", "IMPERIAL_LENGTH", "ASTRONOMY", "STANDARD_TIME"}

\* The calls checked: a renderer on (rate, minSize), getWithUnit on (value, suffix).
RenderCalls ==
  {[fn |-> f, args |-> <<ppm, minSize>>] :
     f \in Renderers \ {"IMPERIAL_LENGTH"}, ppm \in Rates, minSize \in MinSizes}
  \cup
  {[fn |-> "IMPERIAL_LENGTH", args |-> <<ppm, minSize>>] :
     ppm \in ImperialRates, minSize \in MinSizes}

UnitCalls ==
  {[fn |-> "getWithUnit", args |-> <<value, unitSuffix>>] :
     value \in UnitValues, unitSuffix \in {"m", "s"}}

\* Values handed to roundSignificand: with more digits than it keeps, at a tie
\* (12345, 99995), just below one (99949), and the lengths a bar can have.
RoundMantissas == {123456, 12345, 12344, 99995, 99949, 10005, 1235, 25, 5, 2, 1}

RoundValues ==
  {Sci(m, e) : m \in RoundMantissas, e \in (-MaxExp)..(MaxExp - 3)}

\* roundSignificand on (x, decimalPlaces); the source passes 3.
RoundCalls ==
  {[fn |-> "roundSignificand", args |-> <<x, decimalPlaces>>] :
     x \in RoundValues, decimalPlaces \in {3}}

NoCall == [fn |-> "none"]
NoResult == [size |-> Num(1), text |-> <<>>]

\* The Scalebar, its viewer and its element are not part of a formatting call.
Detached == [use |-> "none"]

InitRender ==
  /\ call \in RenderCalls \cup UnitCalls \cup RoundCalls
  /\ pc = "call"
  /\ inner = NoCall
  /\ ret = NoResult
  /\ sb = Detached
  /\ viewer = Detached
  /\ divElt = Detached

\* A renderer runs: it picks the unit and returns what the call it ends in returns.
Render(name, c) ==
  /\ pc = "call"
  /\ call.fn = name
  /\ inner' = c
  /\ ret' = Invoke(c)
  /\ pc' = "done"
  /\ UNCHANGED <<call, sb, viewer, divElt>>

CallMETRIC_LENGTH ==
  Render("METRIC_LENGTH", METRIC_LENGTH(call.args[1], call.args[2]))

CallIMPERIAL_LENGTH ==
  Render("IMPERIAL_LENGTH", IMPERIAL_LENGTH(call.args[1], call.args[2]))

CallASTRONOMY ==
  Render("ASTRONOMY", ASTRONOMY(call.args[1], call.args[2]))

CallSTANDARD_TIME ==
  Render("STANDARD_TIME", STANDARD_TIME(call.args[1], call.args[2]))

CallGetWithUnit ==
  /\ pc = "call"
  /\ call.fn = "getWithUnit"
  /\ ret' = [size |-> Num(1), text |-> getWithUnit(call.args[1], call.args[2])]
  /\ pc' = "done"
  /\ UNCHANGED <<call, inner, sb, viewer, divElt>>

CallRoundSignificand ==
  /\ pc = "call"
  /\ call.fn = "roundSignificand"
  /\ ret' = [size |-> roundSignificand(call.args[1], call.args[2]), text |-> <<>>]
  /\ pc' = "done"
  /\ UNCHANGED <<call, inner, sb, viewer, divElt>>

NextRender ==
  \/ CallMETRIC_LENGTH
  \/ CallIMPERIAL_LENGTH
  \/ CallASTRONOMY
  \/ CallSTANDARD_TIME
  \/ CallGetWithUnit
  \/ CallRoundSignificand

SpecRender == InitRender /\ [][NextRender]_vars

----------------------------------------------------------------------------
(* Properties of the renderers and of the formatting functions, under      *)
(* SpecRender.                                                             *)

RenderDone == pc = "done" /\ call.fn \in Renderers

\* The arguments of the renderer call.
ArgRate == call.args[1]
ArgMinSize == call.args[2]

\* The length of the bar in the chosen unit, before rounding.
BarLength == scalebarLength(inner.ppm, inner.minSize)

\* x is a power of ten, 10^-9 .. 10^9.
IsPow10(x) ==
  \/ x.d = 1 /\ x.n \in {10 ^ i : i \in 0..9}
  \/ x.n = 1 /\ x.d \in {10 ^ i : i \in 0..9}

\* x = k * 10^n for a k of K and an integer n.
InDecadeSet(x, K) == \E k \in K : IsPow10(RDiv(x, k))

\* C1: whatever the renderer, the rate and the minimum width, the size returned
\* is at least the minimum width and less than twice the minimum width.
C1_SizeWithinMinAndDouble ==
  RenderDone =>
    /\ RGe(ret.size, ArgMinSize)
    /\ RLt(ret.size, RMul(Num(2), ArgMinSize))

\* A renderer returned a size strictly between the minimum width and its double.
C1_Witness ==
  /\ RenderDone
  /\ call.fn = "IMPERIAL_LENGTH"
  /\ RGt(ret.size, ArgMinSize)

\* C2 as claimed: the length the bar represents is k * 10^n with k in {1,2,4,5}.
C2_LengthIn1245 ==
  RenderDone => InDecadeSet(BarLength, {Num(1), Num(2), Num(4), Num(5)})

\* C2 as amended: the length the bar represents is k * 10^n with k in
\* {1, 2, 2.5, 5} (normalize divides by 5, 4 or 2, so the length is 10^n
\* divided by 1, 5, 4 or 2).
C2_LengthIn1_2_25_5 ==
  RenderDone => InDecadeSet(BarLength, {Num(1), Num(2), Rat(5, 2), Num(5)})

\* A bar of 25 units: the rate is 4 px per unit and the minimum width 100 px.
C2_Witness ==
  /\ RenderDone
  /\ inner.ppm = Num(4)
  /\ inner.minSize = Num(100)
  /\ BarLength = Num(25)

\* C3: the size returned is the unrounded labelled length times the rate of the
\* unit, in getScalebarSizeAndText and in getScalebarSizeAndTextForMetric.
C3_SizeIsLengthTimesRate ==
  RenderDone => ret.size = RMul(BarLength, inner.ppm)

\* A bar in feet that is wider than the minimum width.
C3_Witness ==
  /\ RenderDone
  /\ inner.fn = "getScalebarSizeAndText"
  /\ inner.unitSuffix = "ft"
  /\ RGt(ret.size, inner.minSize)
  /\ ret.size = RMul(BarLength, inner.ppm)

UnitDone == pc = "done" /\ call.fn = "getWithUnit"

\* lo <= x < hi
InRange(lo, x, hi) == RGe(x, lo) /\ RLt(x, hi)

\* C4: getWithUnit puts a value in exactly one of five buckets: below 1e-6 nano
\* (number x 1e9), [1e-6, 1e-3) micro (x 1e6), [1e-3, 1) milli (x 1e3),
\* [1, 1000) no prefix (number unchanged), from 1000 on kilo (number / 1000).
C4_MetricBuckets ==
  UnitDone =>
    LET v == call.args[1]
        u == call.args[2]
        nano == RLt(v, Rat(1, 1000000))
        micro == InRange(Rat(1, 1000000), v, Rat(1, 1000))
        milli == InRange(Rat(1, 1000), v, Num(1))
        base == InRange(Num(1), v, Num(1000))
        kilo == RGe(v, Num(1000))
    IN  /\ Cardinality({b \in {"n", "u", "m", "", "k"} :
             \/ b = "n" /\ nano
             \/ b = "u" /\ micro
             \/ b = "m" /\ milli
             \/ b = "" /\ base
             \/ b = "k" /\ kilo}) = 1
        /\ nano => ret.text = <<RMul(v, Num(1000000000)), " n", u>>
        /\ micro => ret.text = <<RMul(v, Num(1000000)), " μ", u>>
        /\ milli => ret.text = <<RMul(v, Num(1000)), " m", u>>
        /\ base => ret.text = <<v, " ", u>>
        /\ kilo => ret.text = <<RDiv(v, Num(1000)), " k", u>>

\* The boundary 1e-6 is 1 micro.
C4_Witness ==
  /\ UnitDone
  /\ call.args[1] = Rat(1, 1000000)
  /\ ret.text = <<Num(1), " μ", call.args[2]>>

\* The unit of the label: the third part of the text, after number and spacer.
LabelUnit == ret.text[3]

\* 2 * minWidth
MaxSize == RMul(Num(2), ArgMinSize)

\* Pixels per inch and per foot for the rate in pixels per meter.
PixelsPerInch == RMul(ArgRate, Rat(254, 10000))
PixelsPerFoot == RMul(PixelsPerInch, Num(12))

ImperialDone == pc = "done" /\ call.fn = "IMPERIAL_LENGTH"

\* The unit of the imperial ladder when a foot bar ends below `feet` feet.
ImperialUnit(feet) ==
  IF RLt(MaxSize, PixelsPerInch) THEN "th"
  ELSE IF RLt(MaxSize, RMul(PixelsPerInch, Num(12))) THEN "in"
  ELSE IF RLt(MaxSize, RMul(PixelsPerFoot, Num(feet))) THEN "ft"
  ELSE "mi"

\* C5 as claimed: thou when 2 x minWidth < pixels per inch, inch when it is
\* below 12 inches, foot when it is below 5280 feet, mile otherwise.
C5_ImperialLadder5280 == ImperialDone => LabelUnit = ImperialUnit(5280)

\* C5 as amended: thou when 2 x minWidth < pixels per inch, inch when it is
\* below 12 inches, foot when it is below 2000 feet, mile otherwise.
C5_ImperialLadder2000 == ImperialDone => LabelUnit = ImperialUnit(2000)

\* 2 x minWidth is between 2000 and 5280 feet, and the unit is the mile.
C5_Witness ==
  /\ ImperialDone
  /\ RGe(MaxSize, RMul(PixelsPerFoot, Num(2000)))
  /\ RLt(MaxSize, RMul(PixelsPerFoot, Num(5280)))
  /\ LabelUnit = "mi"

\* The first unit of a ladder whose next unit does not fit in 2 x minWidth:
\* units[i] for the least i with MaxSize < rate of units[i] * factors[i], the
\* last unit when there is none. `rate` is the rate of units[i].
RECURSIVE LadderUnit(_, _, _, _)
LadderUnit(units, factors, rate, i) ==
  IF i = Len(units) THEN units[i]
  ELSE IF RLt(MaxSize, RMul(rate, factors[i])) THEN units[i]
  ELSE LadderUnit(units, factors, RMul(rate, factors[i]), i + 1)

\* C6: STANDARD_TIME returns the first of second, minute, hour, day whose next
\* unit (60, 60, 24, 365.25 of it) is wider than 2 x minWidth, else year;
\* ASTRONOMY the first of arcsecond, arcminute (60, 60), else degree; 1 px per
\* second at 200 px gives minutes and 10 px per arcsecond at 100 px arcseconds.
C6_TimeAndAngleLadders ==
  /\ (pc = "done" /\ call.fn = "STANDARD_TIME") =>
       /\ LabelUnit =
            LadderUnit(<<"s", "minute", "hour", "day", "year">>,
                       <<Num(60), Num(60), Num(24), Rat(36525, 100)>>, ArgRate, 1)
       /\ (ArgRate = Num(1) /\ ArgMinSize = Num(200)) => LabelUnit = "minute"
  /\ (pc = "done" /\ call.fn = "ASTRONOMY") =>
       /\ LabelUnit =
            LadderUnit(<<"\"", "'", "&#176">>, <<Num(60), Num(60)>>, ArgRate, 1)
       /\ (ArgRate = Num(10) /\ ArgMinSize = Num(100)) => LabelUnit = "\""

\* 1 px per second at a minimum width of 200 px: a bar in minutes.
C6_Witness ==
  /\ pc = "done"
  /\ call.fn = "STANDARD_TIME"
  /\ ArgRate = Num(1)
  /\ ArgMinSize = Num(200)
  /\ LabelUnit = "minute"

\* The text ends in the plural "s", after the unit.
Pluralized == Len(ret.text) = 4 /\ ret.text[4] = "s"

\* C7: the label is pluralized exactly when the unit is minute, hour, day or
\* year and the rounded factor is greater than 1; astronomy labels have no
\* spacer between the number and the unit.
C7_PluralOnlyAboveOne ==
  RenderDone =>
    /\ Pluralized <=>
         /\ LabelUnit \in {"minute", "hour", "day", "year"}
         /\ RGt(ret.text[1], Num(1))
    /\ call.fn \in {"METRIC_LENGTH", "IMPERIAL_LENGTH", "ASTRONOMY"} => ~Pluralized
    /\ call.fn = "ASTRONOMY" => ret.text[2] = ""

\* "1 hour": a pluralizable unit with the factor 1, in the singular.
C7_Witness ==
  /\ RenderDone
  /\ LabelUnit = "hour"
  /\ ret.text[1] = Num(1)
  /\ ~Pluralized

RoundDone == pc = "done" /\ call.fn = "roundSignificand"

\* The decimal exponent of x: the e with 10^e <= x < 10^(e+1).
DecimalExponent(x) ==
  CHOOSE e \in (-9)..8 : RGe(x, Pow10(e)) /\ RLt(x, Pow10(e + 1))

\* y is x rounded to `digits` significant decimal digits, ties upward: y is an
\* integer k of units 10^(e - digits + 1), with k - 1/2 <= x in these units < k + 1/2.
RoundedToDigits(x, y, digits) ==
  LET units == Pow10(digits - 1 - DecimalExponent(x))
      k == RMul(y, units)
      twice == RMul(Num(2), RMul(x, units))
  IN  /\ k.d = 1
      /\ RGe(twice, Num(2 * k.n - 1))
      /\ RLt(twice, Num(2 * k.n + 1))

\* C15 as claimed: roundSignificand(x, 3) is x rounded to 3 significant decimal
\* digits; 1.23456 gives 1.23 and 123456 gives 123000.
C15_ThreeSignificantDigits ==
  (RoundDone /\ call.args[2] = 3) =>
    /\ RoundedToDigits(call.args[1], ret.size, 3)
    /\ call.args[1] = Rat(123456, 100000) => ret.size = Rat(123, 100)
    /\ call.args[1] = Num(123456) => ret.size = Num(123000)

\* C15 as amended: roundSignificand(x, 3) is x rounded to 4 significant decimal
\* digits, the leading digit and 3 decimal places of the significand, a tie
\* rounded upward; 1.23456 gives 1.235 and 123456 gives 123500.
C15_FourSignificantDigits ==
  (RoundDone /\ call.args[2] = 3) =>
    /\ RoundedToDigits(call.args[1], ret.size, 4)
    /\ call.args[1] = Rat(123456, 100000) => ret.size = Rat(1235, 1000)
    /\ call.args[1] = Num(123456) => ret.size = Num(123500)

\* 1.23456 rounded: 1.235, which is not 1.23.
C15_Witness ==
  /\ RoundDone
  /\ call.args = <<Rat(123456, 100000), 3>>
  /\ ret.size = Rat(1235, 1000)
  /\ ret.size # call.args[1]

\* C18: in IMPERIAL_LENGTH, ASTRONOMY and STANDARD_TIME the unrounded length of
\* the bar in the chosen unit is less than the number of these units in the
\* next unit of the ladder: 1000 thou, 12 inches, 5280 feet, 60 arcseconds,
\* arcminutes, seconds or minutes, 24 hours, 365.25 days.
C18_FactorBelowNextUnit ==
  (RenderDone /\ call.fn \in {"IMPERIAL_LENGTH", "ASTRONOMY", "STANDARD_TIME"}) =>
    /\ inner.unitSuffix = "th" => RLt(BarLength, Num(1000))
    /\ inner.unitSuffix = "in" => RLt(BarLength, Num(12))
    /\ inner.unitSuffix = "ft" => RLt(BarLength, Num(5280))
    /\ inner.unitSuffix \in {"\"", "'", "s", "minute"} => RLt(BarLength, Num(60))
    /\ inner.unitSuffix = "hour" => RLt(BarLength, Num(24))
    /\ inner.unitSuffix = "day" => RLt(BarLength, Rat(36525, 100))

\* A bar of 50 arcminutes, the longest length below 60.
C18_Witness ==
  /\ RenderDone
  /\ call.fn = "ASTRONOMY"
  /\ inner.unitSuffix = "'"
  /\ BarLength = Num(50)

----------------------------------------------------------------------------
(* The Scalebar: its placement fields, the viewer and the overlay element. *)

\* enum ScalebarLocation
NONE == 0
TOP_LEFT == 1
TOP_RIGHT == 2
BOTTOM_RIGHT == 3
BOTTOM_LEFT == 4

Max(a, b) == IF a >= b THEN a ELSE b
Min(a, b) == IF a <= b THEN a ELSE b

\* An options object is a record that has a field or not.
Has(options, key) == key \in DOMAIN options

\* options.key || default, for a numeric field (0 is falsy).
NumberOr(options, key, default) ==
  IF Has(options, key) /\ options[key] # 0 THEN options[key] ELSE default

\* The placement fields the constructor sets.
Construct(options) ==
  [location |-> NumberOr(options, "location", BOTTOM_LEFT),
   xOffset |-> NumberOr(options, "xOffset", 5),
   yOffset |-> NumberOr(options, "yOffset", 5),
   stayInsideImage |->
     IF Has(options, "stayInsideImage") THEN options.stayInsideImage ELSE TRUE]

\* new Point(x, y)
Point(x, y) == [x |-> x, y |-> y]

\* viewer.viewport.pixelFromPoint(point, true): the viewport shows the content,
\* one viewport unit wide, with its top left corner at the pixel `origin` and
\* `scale` pixels per viewport unit. point.x is an integer, point.y a rational.
pixelFromPoint(viewport, point) ==
  Point(viewport.origin.x + point.x * viewport.scale,
        viewport.origin.y + (point.y.n * viewport.scale) \div point.y.d)

\* 1 / this.viewer.source.aspectRatio
InverseAspectRatio(v) == RDiv(Num(1), v.source.aspectRatio)

Zero == [n |-> 0, d |-> 1]

topLeftLocation(this, v, d) ==
  LET pixel == pixelFromPoint(v.viewport, Point(0, Zero))
      x == IF this.stayInsideImage /\ ~v.wrapHorizontal
             THEN Max(pixel.x, 0) ELSE 0
      y == IF this.stayInsideImage /\ ~v.wrapVertical
             THEN Max(pixel.y, 0) ELSE 0
  IN  Point(x + this.xOffset, y + this.yOffset)

topRightLocation(this, v, d) ==
  LET barWidth == d.offsetWidth
      pixel == pixelFromPoint(v.viewport, Point(1, Zero))
      x0 == v.container.offsetWidth - barWidth
      x == IF this.stayInsideImage /\ ~v.wrapHorizontal
             THEN Min(x0, pixel.x - barWidth) ELSE x0
      y == IF this.stayInsideImage /\ ~v.wrapVertical
             THEN Max(0, pixel.y) ELSE 0
  IN  Point(x - this.xOffset, y + this.yOffset)

\* bottomRightLocation with the offsets added, as for the top left corner.
bottomRightLocationOutward(this, v, d) ==
  LET barWidth == d.offsetWidth
      barHeight == d.offsetHeight
      pixel == pixelFromPoint(v.viewport, Point(1, InverseAspectRatio(v)))
      x0 == v.container.offsetWidth - barWidth
      y0 == v.container.offsetHeight - barHeight
      x == IF this.stayInsideImage /\ ~v.wrapHorizontal
             THEN Min(x0, pixel.x - barWidth) ELSE x0
      y == IF this.stayInsideImage /\ ~v.wrapVertical
             THEN Min(y0, pixel.y - barHeight) ELSE y0
  IN  Point(x + this.xOffset, y + this.yOffset)

\* bottomRightLocation with both clamps under the test of wrapVertical.
bottomRightLocationOneFlag(this, v, d) ==
  LET barWidth == d.offsetWidth
      barHeight == d.offsetHeight
      pixel == pixelFromPoint(v.viewport, Point(1, InverseAspectRatio(v)))
      x0 == v.container.offsetWidth - barWidth
      y0 == v.container.offsetHeight - barHeight
      x == IF this.stayInsideImage /\ ~v.wrapVertical
             THEN Min(x0, pixel.x - barWidth) ELSE x0
      y == IF this.stayInsideImage /\ ~v.wrapVertical
             THEN Min(y0, pixel.y - barHeight) ELSE y0
  IN  Point(x - this.xOffset, y - this.yOffset)

bottomRightLocation(this, v, d) ==
  LET barWidth == d.offsetWidth
      barHeight == d.offsetHeight
      pixel == pixelFromPoint(v.viewport, Point(1, InverseAspectRatio(v)))
      x0 == v.container.offsetWidth - barWidth
      y0 == v.container.offsetHeight - barHeight
      x == IF this.stayInsideImage /\ ~v.wrapHorizontal
             THEN Min(x0, pixel.x - barWidth) ELSE x0
      y == IF this.stayInsideImage /\ ~v.wrapVertical
             THEN Min(y0, pixel.y - barHeight) ELSE y0
  IN  Point(x - this.xOffset, y - this.yOffset)

\* bottomLeftLocation with the content edge taken for the top of the overlay.
bottomLeftLocationNoHeight(this, v, d) ==
  LET barHeight == d.offsetHeight
      pixel == pixelFromPoint(v.viewport, Point(0, InverseAspectRatio(v)))
      y0 == v.container.offsetHeight - barHeight
      x == IF this.stayInsideImage /\ ~v.wrapHorizontal
             THEN Max(0, pixel.x) ELSE 0
      y == IF this.stayInsideImage /\ ~v.wrapVertical
             THEN Min(y0, pixel.y) ELSE y0
  IN  Point(x + this.xOffset, y - this.yOffset)

bottomLeftLocation(this, v, d) ==
  LET barHeight == d.offsetHeight
      pixel == pixelFromPoint(v.viewport, Point(0, InverseAspectRatio(v)))
      y0 == v.container.offsetHeight - barHeight
      x == IF this.stayInsideImage /\ ~v.wrapHorizontal
             THEN Max(0, pixel.x) ELSE 0
      y == IF this.stayInsideImage /\ ~v.wrapVertical
             THEN Min(y0, pixel.y - barHeight) ELSE y0
  IN  Point(x + this.xOffset, y - this.yOffset)

\* The Point returned, or NoPoint for `undefined` (no branch returns).
NoPoint == [undefined |-> TRUE]

getScalebarLocation(this, v, d) ==
  IF this.location = TOP_LEFT THEN topLeftLocation(this, v, d)
  ELSE IF this.location = TOP_RIGHT THEN topRightLocation(this, v, d)
  ELSE IF this.location = BOTTOM_RIGHT THEN bottomRightLocation(this, v, d)
  ELSE IF this.location = BOTTOM_LEFT THEN bottomLeftLocation(this, v, d)
  ELSE NoPoint

----------------------------------------------------------------------------
(* The placement of the overlay: a Scalebar is constructed on a viewer, the *)
(* viewport is panned and zoomed, the container resized, and               *)
(* getScalebarLocation is called.                                          *)

NoOptions == [key \in {} |-> 0]

\* The options objects: each placement field is absent or has one of a few values.
PlacementOptions ==
  {l @@ x @@ y @@ st :
     l \in {NoOptions} \cup {[location |-> v] : v \in NONE..BOTTOM_LEFT},
     x \in {NoOptions} \cup {[xOffset |-> v] : v \in {0, 10, -5}},
     y \in {NoOptions} \cup {[yOffset |-> v] : v \in {0, 10, -5}},
     st \in {NoOptions} \cup {[stayInsideImage |-> v] : v \in BOOLEAN}}

\* offsetWidth and offsetHeight of the container and of the overlay.
ContainerSizes == {[offsetWidth |-> 400, offsetHeight |-> 300],
                   [offsetWidth |-> 240, offsetHeight |-> 180]}

OverlaySizes == {[offsetWidth |-> 100, offsetHeight |-> 20],
                 [offsetWidth |-> 180, offsetHeight |-> 34]}

\* The viewport after `pan` steps of 120 x 90 px at zoom level `zoom`
\* (280 px per viewport unit and level).
Viewport(pan, zoom) ==
  [origin |-> Point(120 * pan.x, 90 * pan.y), scale |-> 280 * zoom, pan |-> pan,
   zoom |-> zoom]

Pans == (-MaxPan)..MaxPan

InitLocation ==
  /\ \E options \in PlacementOptions : sb = Construct(options)
  /\ \E wh \in BOOLEAN, wv \in BOOLEAN, c \in ContainerSizes :
       viewer = [wrapHorizontal |-> wh, wrapVertical |-> wv, container |-> c,
                 source |-> [aspectRatio |-> Rat(4, 3)],
                 viewport |-> Viewport(Point(0, 0), 1)]
  /\ divElt \in OverlaySizes
  /\ call = [fn |-> "getScalebarLocation", args |-> <<>>]
  /\ pc = "call"
  /\ inner = NoCall
  /\ ret = NoPoint

\* The user drags the image: the viewport moves by one step.
Pan ==
  \E dx \in {-1, 0, 1}, dy \in {-1, 0, 1} :
    /\ <<dx, dy>> # <<0, 0>>
    /\ viewer.viewport.pan.x + dx \in Pans
    /\ viewer.viewport.pan.y + dy \in Pans
    /\ viewer' = [viewer EXCEPT !.viewport =
         Viewport(Point(@.pan.x + dx, @.pan.y + dy), @.zoom)]
    /\ pc' = "call"
    /\ ret' = NoPoint
    /\ UNCHANGED <<call, inner, sb, divElt>>

\* The user zooms in or out by one level.
Zoom ==
  \E dz \in {-1, 1} :
    /\ viewer.viewport.zoom + dz \in 1..MaxZoom
    /\ viewer' = [viewer EXCEPT !.viewport = Viewport(@.pan, @.zoom + dz)]
    /\ pc' = "call"
    /\ ret' = NoPoint
    /\ UNCHANGED <<call, inner, sb, divElt>>

\* The container is resized.
Resize ==
  \E c \in ContainerSizes :
    /\ c # viewer.container
    /\ viewer' = [viewer EXCEPT !.container = c]
    /\ pc' = "call"
    /\ ret' = NoPoint
    /\ UNCHANGED <<call, inner, sb, divElt>>

GetScalebarLocation ==
  /\ pc = "call"
  /\ ret' = getScalebarLocation(sb, viewer, divElt)
  /\ pc' = "done"
  /\ UNCHANGED <<call, inner, sb, viewer, divElt>>

NextLocation ==
  \/ Pan
  \/ Zoom
  \/ Resize
  \/ GetScalebarLocation

SpecLocation == InitLocation /\ [][NextLocation]_vars

----------------------------------------------------------------------------
(* Properties of getScalebarLocation, under SpecLocation.                  *)

LocationDone == pc = "done" /\ call.fn = "getScalebarLocation"

LeftAnchored == sb.location \in {TOP_LEFT, BOTTOM_LEFT}
TopAnchored == sb.location \in {TOP_LEFT, TOP_RIGHT}

\* The pixels of the edges of the content in the container: the content is one
\* viewport unit wide and 1 / aspectRatio viewport units high.
ContentLeft == viewer.viewport.origin.x
ContentTop == viewer.viewport.origin.y
ContentRight == ContentLeft + viewer.viewport.scale
ContentBottom ==
  ContentTop + (viewer.viewport.scale * viewer.source.aspectRatio.d)
                 \div viewer.source.aspectRatio.n

\* The position against the container edge, the offset applied inward.
UnclampedX ==
  IF LeftAnchored THEN sb.xOffset
  ELSE viewer.container.offsetWidth - divElt.offsetWidth - sb.xOffset

UnclampedY ==
  IF TopAnchored THEN sb.yOffset
  ELSE viewer.container.offsetHeight - divElt.offsetHeight - sb.yOffset

\* The position against the content edge, the offset applied inward.
AtContentX ==
  IF LeftAnchored THEN ContentLeft + sb.xOffset
  ELSE ContentRight - divElt.offsetWidth - sb.xOffset

AtContentY ==
  IF TopAnchored THEN ContentTop + sb.yOffset
  ELSE ContentBottom - divElt.offsetHeight - sb.yOffset

\* The content edge of the anchored corner is at or beyond the container edge.
CoversEdgeX ==
  IF LeftAnchored THEN ContentLeft <= 0
  ELSE ContentRight >= viewer.container.offsetWidth

CoversEdgeY ==
  IF TopAnchored THEN ContentTop <= 0
  ELSE ContentBottom >= viewer.container.offsetHeight

ClampedX == IF CoversEdgeX THEN UnclampedX ELSE AtContentX
ClampedY == IF CoversEdgeY THEN UnclampedY ELSE AtContentY

\* The overlay does not extend past the content edge at its anchored corner.
WithinContentX ==
  IF LeftAnchored THEN ret.x >= ContentLeft
  ELSE ret.x + divElt.offsetWidth <= ContentRight

WithinContentY ==
  IF TopAnchored THEN ret.y >= ContentTop
  ELSE ret.y + divElt.offsetHeight <= ContentBottom

\* C8: without stayInsideImage the location is the container corner with the
\* offsets applied inward, whatever the viewport and the wrap flags; bottom
\* right with offsets 5/5, container 400x300 and overlay 100x20 is (295, 275).
C8_UnclampedCorners ==
  (LocationDone /\ ~sb.stayInsideImage) =>
    /\ ret = Point(UnclampedX, UnclampedY)
    /\ (/\ sb.location = BOTTOM_RIGHT
        /\ sb.xOffset = 5
        /\ sb.yOffset = 5
        /\ viewer.container = [offsetWidth |-> 400, offsetHeight |-> 300]
        /\ divElt = [offsetWidth |-> 100, offsetHeight |-> 20])
       => ret = Point(295, 275)

\* Example 4 of the specification, with the content edges inside the container.
C8_Witness ==
  /\ LocationDone
  /\ ~sb.stayInsideImage
  /\ sb.location = BOTTOM_RIGHT
  /\ ~CoversEdgeX
  /\ ~CoversEdgeY
  /\ ~viewer.wrapHorizontal
  /\ ret = Point(295, 275)

\* C9: with stayInsideImage, on an axis that does not wrap, the coordinate is
\* the unclamped one while the content edge of the anchored corner is at or
\* beyond the container edge, and else the one against the content edge; with
\* an offset that is not negative (the offsets of an AnchorSpec) the overlay
\* does not extend past that content edge.
C9_ClampedToContent ==
  (LocationDone /\ sb.stayInsideImage) =>
    /\ ~viewer.wrapHorizontal =>
         /\ ret.x = ClampedX
         /\ sb.xOffset >= 0 => WithinContentX
    /\ ~viewer.wrapVertical =>
         /\ ret.y = ClampedY
         /\ sb.yOffset >= 0 => WithinContentY

\* A bottom left overlay held against the bottom edge of the content, which is
\* inside the container, while the left edge of the content is not.
C9_Witness ==
  /\ LocationDone
  /\ sb.stayInsideImage
  /\ sb.location = BOTTOM_LEFT
  /\ ~viewer.wrapHorizontal
  /\ ~viewer.wrapVertical
  /\ ContentLeft < 0
  /\ ~CoversEdgeY
  /\ ret = Point(sb.xOffset, ContentBottom - divElt.offsetHeight - sb.yOffset)

\* C10: with stayInsideImage, the coordinate on an axis that wraps is the
\* unclamped one, while the other axis is still clamped when it does not wrap;
\* with both wrap flags the location is the unclamped one.
C10_WrapSkipsClamp ==
  (LocationDone /\ sb.stayInsideImage) =>
    /\ viewer.wrapHorizontal => ret.x = UnclampedX
    /\ viewer.wrapVertical => ret.y = UnclampedY
    /\ (viewer.wrapHorizontal /\ ~viewer.wrapVertical) => ret.y = ClampedY
    /\ (viewer.wrapVertical /\ ~viewer.wrapHorizontal) => ret.x = ClampedX
    /\ (viewer.wrapHorizontal /\ viewer.wrapVertical)
         => ret = Point(UnclampedX, UnclampedY)

\* Example 5 of the specification: the content ends inside the container on
\* both axes; x stays at the container edge, y goes to the content edge.
C10_Witness ==
  /\ LocationDone
  /\ sb.stayInsideImage
  /\ sb.location = BOTTOM_RIGHT
  /\ sb.xOffset = 5
  /\ sb.yOffset = 5
  /\ viewer.wrapHorizontal
  /\ ~viewer.wrapVertical
  /\ viewer.container = [offsetWidth |-> 400, offsetHeight |-> 300]
  /\ divElt = [offsetWidth |-> 100, offsetHeight |-> 20]
  /\ ContentRight < 400
  /\ ContentBottom < 300
  /\ ret = Point(295, ContentBottom - 25)

----------------------------------------------------------------------------
(* The life of a Scalebar: it is constructed on a viewer, the viewer opens, *)
(* animates, is resized and closes, and updateOptions and refresh are      *)
(* called. The cosmetic fields (colors, font, barThickness) keep their     *)
(* defaults and are left out.                                              *)

\* enum ScalebarType (NONE = 0 as in ScalebarLocation)
MICROSCOPY == 1
MAP == 2

\* options.barThickness || 2, with no barThickness in the options
barThickness == 2

\* The number NaN: what Math.log and the arithmetic on it give for an argument
\* that is not positive.
NaN == [n |-> 0, d |-> 0]

\* x > 0, for a number that may be zero, negative or NaN
IsPositive(x) == x.n > 0 /\ x.d > 0

\* this.pixelsPerMeter = null
Null == [null |-> TRUE]

\* !x for a number or null
Falsy(x) == x = Null \/ x.n = 0

\* The string n + "px"
Px(n) == <<n, "px">>

\* A renderer by its name.
sizeAndTextRenderer(name, ppm, minSize) ==
  CASE name = "METRIC_LENGTH" -> METRIC_LENGTH(ppm, minSize)
    [] name = "IMPERIAL_LENGTH" -> IMPERIAL_LENGTH(ppm, minSize)
    [] name = "ASTRONOMY" -> ASTRONOMY(ppm, minSize)
    [] name = "STANDARD_TIME" -> STANDARD_TIME(ppm, minSize)

\* What the call a renderer ends in returns on numbers of any sign: with a rate
\* or a minimum size that is not positive, log10 is NaN or infinite, the
\* significands are NaN, and so are value, size and factor; every comparison
\* with NaN is false, so there is no plural and getWithUnit adds no prefix.
InvokeNumber(c) ==
  IF IsPositive(c.ppm) /\ IsPositive(c.minSize) THEN Invoke(c)
  ELSE IF c.fn = "getScalebarSizeAndText"
    THEN [size |-> NaN,
          text |-> <<NaN, IF c.spacer = Undefined THEN " " ELSE c.spacer,
                     c.unitSuffix, "">>]
  ELSE [size |-> NaN, text |-> <<NaN, " ", c.unitSuffix>>]

\* divElt.style.width = value: a value that is not a length (NaNpx, a negative
\* length) is not assigned.
SetWidth(d, value) ==
  IF value[1] = NaN \/ value[1].n < 0 THEN d ELSE [d EXCEPT !.width = value]

\* divElt.offsetWidth: 0 for an element that is not displayed, else the width
\* in whole pixels and the left and right borders.
offsetWidth(d) ==
  IF d.display = "none" THEN 0
  ELSE Round(d.width[1]).n + (IF d.border = "sides" THEN 2 * barThickness ELSE 0)

\* The box of the element, as getScalebarLocation reads it.
Layout(d) == [offsetWidth |-> offsetWidth(d), offsetHeight |-> d.offsetHeight]

\* The element after setMinWidth, and the offsetWidth it returns.
setMinWidth(d, minWidth) ==
  [divElt |-> [SetWidth(d, minWidth) EXCEPT !.display = ""],
   value |-> offsetWidth([SetWidth(d, minWidth) EXCEPT !.display = ""])]

\* The draw function chosen for a type, by its name.
setDrawScalebarFunction(type) ==
  CASE type = MAP -> "drawMapScalebar"
    [] type = MICROSCOPY -> "drawMicroscopyScalebar"
    [] OTHER -> "function () { return undefined; }"

\* document.createElement("div"), appended to the container.
createElement ==
  [display |-> "", width |-> <<>>, innerHTML |-> <<>>, left |-> <<>>,
   top |-> <<>>, border |-> "none", offsetHeight |-> 20]

\* The fields the constructor sets.
Scalebar(options) ==
  Construct(options) @@
  [minWidth |->
     setMinWidth(createElement,
                 IF Has(options, "minWidth") THEN options.minWidth
                 ELSE Px(Num(150))).value,
   drawScalebar |-> setDrawScalebarFunction(NumberOr(options, "type", MICROSCOPY)),
   pixelsPerMeter |->
     IF Has(options, "pixelsPerMeter") /\ ~Falsy(options.pixelsPerMeter)
       THEN options.pixelsPerMeter ELSE Null,
   referenceItemIdx |-> NumberOr(options, "referenceItemIdx", 0),
   sizeAndTextRenderer |->
     IF Has(options, "sizeAndTextRenderer") THEN options.sizeAndTextRenderer
     ELSE "METRIC_LENGTH"]

\* The element the constructor leaves.
ScalebarDiv(options) ==
  setMinWidth(createElement,
              IF Has(options, "minWidth") THEN options.minWidth
              ELSE Px(Num(150))).divElt

\* The fields after updateOptions(options). What setDrawScalebarFunction and
\* setMinWidth return is not stored: drawScalebar and minWidth stay.
updateOptions(this, options) ==
  [this EXCEPT
     !.pixelsPerMeter =
       IF Has(options, "pixelsPerMeter") /\ ~Falsy(options.pixelsPerMeter)
         THEN options.pixelsPerMeter ELSE @,
     !.referenceItemIdx = NumberOr(options, "referenceItemIdx", @),
     !.location = NumberOr(options, "location", @),
     !.xOffset = NumberOr(options, "xOffset", @),
     !.yOffset = NumberOr(options, "yOffset", @),
     !.stayInsideImage =
       IF Has(options, "stayInsideImage") /\ options.stayInsideImage
         THEN options.stayInsideImage ELSE @,
     !.sizeAndTextRenderer =
       IF Has(options, "sizeAndTextRenderer") THEN options.sizeAndTextRenderer
       ELSE @]

\* The element after updateOptions(options): setMinWidth writes the width.
updateOptionsDiv(d, options) ==
  IF Has(options, "minWidth") THEN setMinWidth(d, options.minWidth).divElt ELSE d

\* viewer.world.getItemAt(idx), with the inner size of the container its
\* viewport holds.
getItemAt(v, idx) ==
  v.world[idx + 1] @@ [containerInnerSize |-> v.container.offsetWidth]

tiledImageViewportToImageZoom(tiledImage, viewportZoom) ==
  RMul(RDiv(RMul(tiledImage.scale, Num(tiledImage.containerInnerSize)),
            Num(tiledImage.dimensions)),
       Num(viewportZoom))

\* var currentPPM = zoom * this.pixelsPerMeter
currentPPM(this, v) ==
  RMul(tiledImageViewportToImageZoom(getItemAt(v, this.referenceItemIdx),
                                     v.viewport.zoom),
       this.pixelsPerMeter)

\* The test at the head of refresh. drawScalebar is a function, never falsy.
Disabled(this, v) ==
  ~v.isOpen \/ Falsy(this.pixelsPerMeter) \/ this.location = NONE

\* this.divElt.style.display = "none", with nothing else touched.
HideNothing(d) == d

\* this.divElt.style.display = "none"
Hide(d) == [d EXCEPT !.display = "none"]

\* this.divElt.style.display = "", with nothing done.
ShowNothing(d) == d

\* this.divElt.style.display = ""
Show(d) == [d EXCEPT !.display = ""]

\* The call the renderer of the Scalebar ends in.
RendererCall(this, v) ==
  sizeAndTextRenderer(this.sizeAndTextRenderer, currentPPM(this, v),
                      Num(this.minWidth))

\* var props = this.sizeAndTextRenderer(currentPPM, this.minWidth)
Props(this, v) == InvokeNumber(RendererCall(this, v))

drawMicroscopyScalebar(d, size, text) ==
  SetWidth([d EXCEPT !.border = "bottom", !.innerHTML = text], Px(size))

drawMapScalebar(d, size, text) ==
  SetWidth([d EXCEPT !.border = "sides", !.innerHTML = text], Px(size))

\* this.drawScalebar(size, text)
drawScalebar(this, d, size, text) ==
  CASE this.drawScalebar = "drawMicroscopyScalebar" ->
         drawMicroscopyScalebar(d, size, text)
    [] this.drawScalebar = "drawMapScalebar" -> drawMapScalebar(d, size, text)
    [] OTHER -> d

\* if (location) { style.left = location.x + "px"; style.top = location.y + "px" }
SetPosition(d, location) ==
  IF location = NoPoint THEN d
  ELSE [d EXCEPT !.left = Px(location.x), !.top = Px(location.y)]

\* The element once it is displayed and the scalebar drawn.
Drawn(this, d, props) == drawScalebar(this, Show(d), props.size, props.text)

\* The rest of refresh with the location resolved before the scalebar is drawn.
refreshLocateFirst(this, v, d, props) ==
  SetPosition(Drawn(this, d, props),
              getScalebarLocation(this, v, Layout(Show(d))))

\* The rest of refresh once the test at its head has passed and the renderer
\* has returned props: the element drawn, then placed where
\* getScalebarLocation finds it.
refreshEnabled(this, v, d, props) ==
  SetPosition(Drawn(this, d, props),
              getScalebarLocation(this, v, Layout(Drawn(this, d, props))))

\* What an enabled refresh called, in order: the renderer with its arguments,
\* the draw function, getScalebarLocation.
Called(this, v) ==
  [sizeAndTextRenderer |-> this.sizeAndTextRenderer,
   ppm |-> currentPPM(this, v),
   minSize |-> this.minWidth,
   drawScalebar |-> this.drawScalebar,
   getScalebarLocation |-> TRUE]

----------------------------------------------------------------------------
(* The operations on a Scalebar and the events of its viewer.              *)

MinusTwo == [n |-> -2, d |-> 1]

\* The options a Scalebar is constructed with.
ConstructorOptions ==
  {NoOptions,
   [pixelsPerMeter |-> Num(2)],
   [pixelsPerMeter |-> MinusTwo],
   [pixelsPerMeter |-> Num(2), minWidth |-> Px(Zero)],
   [pixelsPerMeter |-> Num(2), location |-> TOP_RIGHT, stayInsideImage |-> FALSE],
   [pixelsPerMeter |-> Num(2), location |-> TOP_RIGHT, xOffset |-> 0, yOffset |-> 0],
   [pixelsPerMeter |-> Num(2), type |-> MAP, location |-> BOTTOM_RIGHT,
    minWidth |-> Px(Num(100)), stayInsideImage |-> FALSE]}

\* The options of updateOptions and of refresh: one field each. No options
\* (undefined) and {} change nothing alike.
UpdateOptions ==
  {[type |-> MAP],
   [minWidth |-> Px(Num(200))],
   [pixelsPerMeter |-> Num(5)],
   [referenceItemIdx |-> 1],
   [location |-> BOTTOM_RIGHT],
   [xOffset |-> 10, yOffset |-> 10],
   [xOffset |-> 0],
   [stayInsideImage |-> FALSE],
   [sizeAndTextRenderer |-> "STANDARD_TIME"]}

\* The containers: laid out, and collapsed (its inner size is 0).
RefreshContainers == {[offsetWidth |-> 400, offsetHeight |-> 300],
                      [offsetWidth |-> 0, offsetHeight |-> 0]}

\* Two images in the world: 4000 and 10000 pixels wide, one viewport unit each.
World == <<[scale |-> Num(1), dimensions |-> 4000],
           [scale |-> Num(1), dimensions |-> 10000]>>

InitRefresh ==
  /\ \E options \in ConstructorOptions :
       /\ call = [fn |-> "constructor", args |-> <<options>>, nth |-> 0,
                  before |-> [offsetWidth |-> 0, offsetHeight |-> 0,
                              display |-> ""]]
       /\ sb = Scalebar(options)
       /\ divElt = ScalebarDiv(options)
  /\ viewer = [isOpen |-> FALSE, wrapHorizontal |-> FALSE, wrapVertical |-> FALSE,
               container |-> [offsetWidth |-> 400, offsetHeight |-> 300],
               source |-> [aspectRatio |-> Rat(4, 3)],
               viewport |-> Viewport(Point(0, 0), 1),
               world |-> World]
  /\ pc = "constructed"
  /\ inner = NoCall
  /\ ret = NoResult

\* The next call or event, the nth since the construction, and the box and
\* the display of the element before it.
Calling(fn, options) ==
  /\ call.nth < MaxCalls
  /\ call' = [fn |-> fn, args |-> <<options>>, nth |-> call.nth + 1,
              before |-> Layout(divElt) @@ [display |-> divElt.display]]

\* refresh(options) on the viewer v: the whole of it.
Refreshed(fn, options, v) ==
  /\ Calling(fn, options)
  /\ sb' = updateOptions(sb, options)
  /\ viewer' = v
  /\ IF Disabled(sb', v)
       THEN /\ divElt' = Hide(updateOptionsDiv(divElt, options))
            /\ inner' = NoCall
            /\ ret' = NoResult
            /\ pc' = "hidden"
       ELSE \E props \in {Props(sb', v)} :
              /\ divElt' = refreshEnabled(sb', v,
                                          updateOptionsDiv(divElt, options), props)
              /\ inner' = Called(sb', v)
              /\ ret' = props
              /\ pc' = "drawn"

\* The viewer opens an image: the "open" handler refreshes.
Open ==
  /\ ~viewer.isOpen
  /\ Refreshed("open", NoOptions, [viewer EXCEPT !.isOpen = TRUE])

\* The viewer closes its image; the Scalebar has no handler for it.
Close ==
  /\ viewer.isOpen
  /\ viewer' = [viewer EXCEPT !.isOpen = FALSE]
  /\ Calling("close", NoOptions)
  /\ inner' = NoCall
  /\ ret' = NoResult
  /\ pc' = "closed"
  /\ UNCHANGED <<sb, divElt>>

\* The viewport zooms by one level: the "animation" handler refreshes.
Animation ==
  \E dz \in {-1, 1} :
    /\ viewer.isOpen
    /\ viewer.viewport.zoom + dz \in 1..MaxZoom
    /\ Refreshed("animation", NoOptions,
                 [viewer EXCEPT !.viewport = Viewport(@.pan, @.zoom + dz)])

\* The container is resized: the "resize" handler refreshes.
ResizeRefresh ==
  \E c \in RefreshContainers :
    /\ c # viewer.container
    /\ Refreshed("resize", NoOptions, [viewer EXCEPT !.container = c])

UpdateOptionsCall ==
  \E options \in UpdateOptions :
    /\ Calling("updateOptions", options)
    /\ sb' = updateOptions(sb, options)
    /\ divElt' = updateOptionsDiv(divElt, options)
    /\ inner' = NoCall
    /\ ret' = NoResult
    /\ pc' = "updated"
    /\ UNCHANGED viewer

RefreshCall ==
  \E options \in UpdateOptions \cup {NoOptions} :
    Refreshed("refresh", options, viewer)

NextRefresh ==
  \/ Open
  \/ Close
  \/ Animation
  \/ ResizeRefresh
  \/ UpdateOptionsCall
  \/ RefreshCall

SpecRefresh == InitRefresh /\ [][NextRefresh]_vars

----------------------------------------------------------------------------
(* Properties of refresh and updateOptions, under SpecRefresh.             *)

\* The calls that run refresh: refresh itself and the three handlers.
RefreshFns == {"refresh", "open", "animation", "resize"}

\* The options of the call.
Options == call.args[1]

\* The test at the head of refresh fails on the calibration or on the viewer.
Uncalibrated(this, v) == Falsy(this.pixelsPerMeter) \/ ~v.isOpen

\* C11 as claimed: a refresh that finds the calibration constant missing or
\* the viewer not open hides the overlay, calls neither the renderer nor the
\* draw function nor getScalebarLocation, and leaves the width, the text and
\* the position of the overlay as they were.
C11_HiddenRefreshTouchesNothing ==
  [][(call'.fn \in RefreshFns /\ Uncalibrated(sb', viewer')) =>
       /\ divElt'.display = "none"
       /\ pc' = "hidden"
       /\ inner' = NoCall
       /\ divElt'.width = divElt.width
       /\ divElt'.innerHTML = divElt.innerHTML
       /\ divElt'.left = divElt.left
       /\ divElt'.top = divElt.top]_vars

\* C11 as amended: such a refresh hides the overlay, calls neither the
\* renderer nor the draw function nor getScalebarLocation, and leaves the text
\* and the position as they were; the width too, unless the options of the
\* refresh have a minWidth, which is then the width of the overlay.
C11_HiddenRefreshWritesMinWidthOnly ==
  [][(call'.fn \in RefreshFns /\ Uncalibrated(sb', viewer')) =>
       /\ divElt'.display = "none"
       /\ pc' = "hidden"
       /\ inner' = NoCall
       /\ divElt'.width =
            IF Has(call'.args[1], "minWidth") THEN call'.args[1].minWidth
            ELSE divElt.width
       /\ divElt'.innerHTML = divElt.innerHTML
       /\ divElt'.left = divElt.left
       /\ divElt'.top = divElt.top]_vars

\* refresh({minWidth: "200px"}) on a closed viewer, after a bar of another
\* width was drawn: the overlay is hidden with its text, 200 px wide.
C11_Witness ==
  /\ call.fn = "refresh"
  /\ pc = "hidden"
  /\ ~viewer.isOpen
  /\ Options = [minWidth |-> Px(Num(200))]
  /\ call.before.offsetWidth # 200
  /\ divElt.display = "none"
  /\ divElt.width = Px(Num(200))
  /\ divElt.innerHTML # <<>>

\* The numbers a refresh hands to the renderer are not both positive.
InvalidInput(this, v) ==
  \/ this.minWidth <= 0
  \/ Falsy(this.pixelsPerMeter)
  \/ ~IsPositive(currentPPM(this, v))

\* C12 as claimed: a refresh with a pixels-per-unit (zoom x calibration
\* constant) that is not positive, or with a stored minimum width that is not
\* positive, does not call the renderer and ends with the overlay hidden.
C12_InvalidInputHides ==
  (call.fn \in RefreshFns /\ InvalidInput(sb, viewer)) =>
    /\ pc = "hidden"
    /\ inner = NoCall
    /\ divElt.display = "none"

\* A calibration constant of -2: the renderer is called with -0.2 px per meter
\* and the overlay is displayed with the text "NaN m".
C12_Witness ==
  /\ call.fn = "open"
  /\ sb.pixelsPerMeter = MinusTwo
  /\ pc = "drawn"
  /\ inner.ppm = [n |-> -1, d |-> 5]
  /\ ret = [size |-> NaN, text |-> <<NaN, " ", "m">>]
  /\ divElt.display = ""
  /\ divElt.innerHTML = <<NaN, " ", "m">>

\* An enabled refresh, whose calls are `called` and which leaves the fields
\* `this`, uses every field the options o supply with a truthy value.
RefreshUses(o, called, this) ==
  /\ Has(o, "type") =>
       called.drawScalebar = setDrawScalebarFunction(o.type)
  /\ Has(o, "minWidth") => called.minSize = Round(o.minWidth[1]).n
  /\ Has(o, "pixelsPerMeter") => this.pixelsPerMeter = o.pixelsPerMeter
  /\ Has(o, "referenceItemIdx") => this.referenceItemIdx = o.referenceItemIdx
  /\ Has(o, "location") => this.location = o.location
  /\ (Has(o, "xOffset") /\ o.xOffset # 0) => this.xOffset = o.xOffset
  /\ (Has(o, "yOffset") /\ o.yOffset # 0) => this.yOffset = o.yOffset
  /\ Has(o, "sizeAndTextRenderer") =>
       called.sizeAndTextRenderer = o.sizeAndTextRenderer

\* C13 as claimed: an enabled refresh uses every truthy field of its own
\* options and, when it has none, of the updateOptions call just before it: a
\* new minWidth is the minimum width the renderer gets, a new type selects
\* the draw function.
C13_ReconfigurationTakesEffect ==
  [][(call'.fn \in RefreshFns /\ pc' = "drawn") =>
       /\ RefreshUses(call'.args[1], inner', sb')
       /\ (call.fn = "updateOptions" /\ call'.args[1] = NoOptions) =>
            RefreshUses(call.args[1], inner', sb')]_vars

\* refresh({minWidth: "200px"}) on a Scalebar constructed with the default
\* 150 px: the renderer gets 150 and the bar is narrower than 200 px.
C13_Witness ==
  /\ call.fn = "refresh"
  /\ pc = "drawn"
  /\ Options = [minWidth |-> Px(Num(200))]
  /\ inner.minSize = 150
  /\ ret.size = Num(160)
  /\ divElt.width = Px(Num(160))

\* The location getScalebarLocation finds for the fields `this`.
LocationOf(this) == getScalebarLocation(this, viewer, Layout(divElt))

\* C14 as claimed: a Scalebar constructed with xOffset = 0 or yOffset = 0 has
\* its positions resolved with that offset 0; after updateOptions (or refresh)
\* with stayInsideImage = false or an offset of 0 the stored value is the new
\* one, and getScalebarLocation does not clamp (uses the offset 0).
C14_ZeroAndFalseHonoured ==
  /\ (call.fn = "constructor" /\ Has(Options, "xOffset") /\ Options.xOffset = 0) =>
       LocationOf(sb) = LocationOf([sb EXCEPT !.xOffset = 0])
  /\ (call.fn = "constructor" /\ Has(Options, "yOffset") /\ Options.yOffset = 0) =>
       LocationOf(sb) = LocationOf([sb EXCEPT !.yOffset = 0])
  /\ (/\ call.fn \in {"updateOptions", "refresh"}
      /\ Has(Options, "stayInsideImage")
      /\ ~Options.stayInsideImage) =>
       /\ ~sb.stayInsideImage
       /\ LocationOf(sb) = LocationOf([sb EXCEPT !.stayInsideImage = FALSE])
  /\ (/\ call.fn \in {"updateOptions", "refresh"}
      /\ Has(Options, "xOffset")
      /\ Options.xOffset = 0) =>
       /\ sb.xOffset = 0
       /\ LocationOf(sb) = LocationOf([sb EXCEPT !.xOffset = 0])

\* refresh({stayInsideImage: false}): the field is still true, and the overlay
\* is held against the right edge of the content, inside the container.
C14_Witness ==
  /\ call.fn = "refresh"
  /\ pc = "drawn"
  /\ Options = [stayInsideImage |-> FALSE]
  /\ sb.stayInsideImage
  /\ sb.location = TOP_RIGHT
  /\ divElt.left # Px(viewer.container.offsetWidth - offsetWidth(divElt) - sb.xOffset)
  /\ divElt.left = Px(ContentRight - offsetWidth(divElt) - sb.xOffset)

\* C16: at the end of every refresh the overlay is displayed exactly when the
\* viewer is open, the calibration constant is truthy and the location is set,
\* whatever the display was before: an overlay that was hidden is displayed by
\* the first refresh at which the three hold.
C16_DisplayedIffEnabled ==
  call.fn \in RefreshFns =>
    /\ divElt.display = "" <=>
         /\ viewer.isOpen
         /\ ~Falsy(sb.pixelsPerMeter)
         /\ sb.location # NONE
    /\ divElt.display = "" <=> pc = "drawn"

\* A refresh that displays an overlay an earlier refresh had hidden.
C16_Witness ==
  /\ call.fn \in RefreshFns
  /\ call.before.display = "none"
  /\ divElt.display = ""
  /\ pc = "drawn"

\* C17: after every enabled refresh the position of the overlay is the location
\* for the box the overlay has once drawn in that refresh; at the top right and
\* bottom right without stayInsideImage, left + the width of the overlay is
\* the width of the container - xOffset.
C17_PositionFromDrawnSize ==
  (call.fn \in RefreshFns /\ pc = "drawn") =>
    /\ <<divElt.left, divElt.top>> = <<Px(LocationOf(sb).x), Px(LocationOf(sb).y)>>
    /\ (sb.location \in {TOP_RIGHT, BOTTOM_RIGHT} /\ ~sb.stayInsideImage) =>
         divElt.left[1] + offsetWidth(divElt) =
           viewer.container.offsetWidth - sb.xOffset

\* A refresh that changed the width of an overlay at the right edge.
C17_Witness ==
  /\ call.fn \in RefreshFns
  /\ pc = "drawn"
  /\ sb.location \in {TOP_RIGHT, BOTTOM_RIGHT}
  /\ ~sb.stayInsideImage
  /\ call.before.display = ""
  /\ call.before.offsetWidth # offsetWidth(divElt)
  /\ divElt.left[1] + offsetWidth(divElt) = viewer.container.offsetWidth - sb.xOffset

====
